---------------------------- MODULE Spec2Model ----------------------------
(***************************************************************************)
(* Purchase tracker (src/script.js): sellers and their items, the pending  *)
(* cart, purchase records, bill generation and the billed commit, seller   *)
(* deletion with its cascade, the seller edit form, and the week window    *)
(* functions.  The record store (Firestore) is modelled as two maps from   *)
(* document identifier to document; every store call may fail.             *)
(***************************************************************************)
EXTENDS Integers, Sequences, FiniteSets, TLC

VARIABLES
    sellers,               \* collection 'sellers':   id -> [name, items]
    purchases,             \* collection 'purchases': id -> [sellerId, date, items, billed]
    nextSellerId,          \* next identifier addDoc assigns in 'sellers'
    nextPurchaseId,        \* next identifier addDoc assigns in 'purchases'
    nextItemId,            \* next value crypto.randomUUID() returns
    selectedSellerId,      \* script.js:175 (0 is null)
    pendingCart,           \* script.js:176, itemId -> quantity
    lastGeneratedBillIds,  \* script.js:177
    billPreview,           \* the bill shown by openBillModal
    form,                  \* the seller modal: editId and item rows
    committed,             \* history: ids a successful markAsBilled covered
    last,                  \* history: the handler that ran last, its inputs and outcome
    week,                  \* the week window functions: input, host offset, results
    saveRun,               \* a savePurchase call suspended at one of its awaits
    deleteRun,             \* a deleteSeller call suspended after its read
    billRuns,              \* the generateBill calls suspended at their await
    shownIds               \* history: the purchases aggregated in billPreview

vars == <<sellers, purchases, nextSellerId, nextPurchaseId, nextItemId,
          selectedSellerId, pendingCart, lastGeneratedBillIds, billPreview,
          form, committed, last, week, saveRun, deleteRun, billRuns, shownIds>>

\* the variables of the handlers suspended at an await
asyncVars == <<saveRun, deleteRun, billRuns, shownIds>>

-----------------------------------------------------------------------------
(* Bounds of the model *)

\* days in the window of dates the week functions are applied to
DateSpan == 35
\* purchase records saved over one run
MaxSaved == 1
\* purchase records in the store the billing engine starts from
MaxPurchases == 2
\* largest quantity entered for one item of the cart
MaxQty == 1
\* item rows of the seller form
MaxRows == 2
\* item identifiers handed out over one run
MaxItemId == 5
\* seller documents created over one run
MaxSellers == 2
\* generateBill calls suspended at the same time
MaxBillRuns == 2

-----------------------------------------------------------------------------
(* Sequences and sums *)

Range(s) == {s[i] : i \in 1..Len(s)}

RECURSIVE SumSeq(_)
SumSeq(s) == IF s = <<>> THEN 0 ELSE Head(s) + SumSeq(Tail(s))

Max(a, b) == IF a >= b THEN a ELSE b

-----------------------------------------------------------------------------
(* Calendar dates.  An ISO date string "YYYY-MM-DD" is the triple           *)
(* <<y, m, d>>; the empty string of an unset date input is <<>>.  A Date    *)
(* object is its instant in minutes since 1970-01-01T00:00Z.                *)

MinutesPerDay == 24 * 60

\* new Date("YYYY-MM-DD"): a date-only string is parsed as UTC midnight
DaysFromCivil(y, m, d) ==
    LET yy  == IF m <= 2 THEN y - 1 ELSE y
        era == yy \div 400
        yoe == yy - era * 400
        mp  == IF m > 2 THEN m - 3 ELSE m + 9
        doy == (153 * mp + 2) \div 5 + d - 1
        doe == yoe * 365 + yoe \div 4 - yoe \div 100 + doy
    IN  era * 146097 + doe - 719468

ParseISO(s) == DaysFromCivil(s[1], s[2], s[3]) * MinutesPerDay

\* the calendar date of a day number
CivilFromDays(z) ==
    LET zz  == z + 719468
        era == zz \div 146097
        doe == zz - era * 146097
        yoe == (doe - doe \div 1460 + doe \div 36524 - doe \div 146096) \div 365
        doy == doe - (365 * yoe + yoe \div 4 - yoe \div 100)
        mp  == (5 * doy + 2) \div 153
        d   == doy - (153 * mp + 2) \div 5 + 1
        m   == IF mp < 10 THEN mp + 3 ELSE mp - 9
        y   == yoe + era * 400 + (IF m <= 2 THEN 1 ELSE 0)
    IN  <<y, m, d>>

\* date.toISOString().slice(0,10): the UTC calendar date of the instant
ToISODate(t) == CivilFromDays(t \div MinutesPerDay)

\* date.getDay(): the day of the week of the LOCAL date, 0 is Sunday
GetDay(t, off) == (((t + off) \div MinutesPerDay) + 4) % 7

\* date.setDate(date.getDate() + diff): moves the local calendar day and keeps
\* the local time of day (fixed offset, no daylight-saving change)
AddLocalDays(t, diff) == t + diff * MinutesPerDay

\* string comparison of two ISO dates (p.date >= from, p.date <= to)
IsoLE(a, b) ==
    \/ a[1] < b[1]
    \/ a[1] = b[1] /\ a[2] < b[2]
    \/ a[1] = b[1] /\ a[2] = b[2] /\ a[3] <= b[3]

weekStart(d, off) ==
    LET nd   == ParseISO(d)
        day  == GetDay(nd, off)
        diff == (IF day = 0 THEN -6 ELSE 1) - day
    IN  ToISODate(AddLocalDays(nd, diff))

weekEnd(d, off) ==
    LET ws == ParseISO(weekStart(d, off))
    IN  ToISODate(AddLocalDays(ws, 6))

\* host time zones: New York (EST), UTC, India
TzOffsets == {-300, 0, 330}

-----------------------------------------------------------------------------
(* JavaScript numbers of the cart.  NaN is a value apart from every integer *)
(* the model uses; comparisons with it are false and arithmetic yields it.  *)

NaN == -1000000

\* x || 0 : undefined (no entry), 0 and NaN are falsy
JsOr0(x) == IF x = NaN \/ x = 0 THEN 0 ELSE x

\* q > 0
JsGt0(q) == q # NaN /\ q > 0

\* Math.max(0, x): NaN when x is NaN
JsMax0(x) == IF x = NaN THEN NaN ELSE Max(0, x)

Digits == <<"0", "1", "2", "3", "4", "5", "6", "7", "8", "9">>

IsDigit(c) == \E i \in 1..10 : Digits[i] = c

DigitVal(c) == (CHOOSE i \in 1..10 : Digits[i] = c) - 1

RECURSIVE StripWS(_)
StripWS(s) == IF s # <<>> /\ Head(s) = " " THEN StripWS(Tail(s)) ELSE s

\* the value of the longest prefix of digits, and whether there is one
RECURSIVE DigitPrefix(_, _, _)
DigitPrefix(s, acc, any) ==
    IF s # <<>> /\ IsDigit(Head(s))
    THEN DigitPrefix(Tail(s), acc * 10 + DigitVal(Head(s)), TRUE)
    ELSE [n |-> acc, any |-> any]

\* parseInt(string, 10); a string is its sequence of characters
ParseInt(s) ==
    LET t    == StripWS(s)
        neg  == t # <<>> /\ Head(t) = "-"
        body == IF t # <<>> /\ Head(t) \in {"-", "+"} THEN Tail(t) ELSE t
        r    == DigitPrefix(body, 0, FALSE)
    IN  IF ~r.any THEN NaN ELSE IF neg THEN 0 - r.n ELSE r.n

\* parseInt(val || 0, 10): the empty string is falsy and 0 is parsed as "0"
ParseQty(val) == ParseInt(IF val = <<>> THEN <<"0">> ELSE val)

\* what the quantity input and a direct call can pass to setQty
QtyInputs ==
    {<<Digits[n + 1]>> : n \in 0..MaxQty}
        \cup {<<>>, <<"-", "1">>, <<".", "5">>, <<"a", "b", "c">>, <<"1", "x">>, <<" ", "1">>}

\* the +/- buttons pass 1 and -1; the function is global and takes any step
Deltas == {-2, -1, 1}

-----------------------------------------------------------------------------
(* The pending cart: a JavaScript object used as a map from itemId to a     *)
(* quantity.  The order of its entries, which only orders the lines of a    *)
(* purchase, is taken to be the order of the itemIds.                       *)

NoDocs == [i \in {} |-> 0]

\* m with key k set to v
Put(m, k, v) == [x \in DOMAIN m \cup {k} |-> IF x = k THEN v ELSE m[x]]

\* m without the keys of ks
Drop(m, ks) == [x \in DOMAIN m \ ks |-> m[x]]

EmptyCart == NoDocs

\* pendingCart[k] || 0
CartGetOr0(cart, k) == IF k \in DOMAIN cart THEN JsOr0(cart[k]) ELSE 0

\* pendingCart[k] = v
CartSet(cart, k, v) == Put(cart, k, v)

-----------------------------------------------------------------------------
(* The record store.  A collection is a map from document identifier to    *)
(* document; addDoc assigns identifiers that are never used again.          *)

\* the identifiers of a set, ascending (the order getDocs returns documents in)
RECURSIVE SortedIds(_)
SortedIds(S) ==
    IF S = {} THEN <<>>
    ELSE LET m == CHOOSE x \in S : \A y \in S : x <= y
         IN  <<m>> \o SortedIds(S \ {m})

\* getData(collectionName): the documents with their ids; an error of the
\* store is caught and answered with the empty list
getData(coll, ok) ==
    IF ok
    THEN LET ids == SortedIds(DOMAIN coll)
         IN  [i \in 1..Len(ids) |-> [id |-> ids[i], doc |-> coll[ids[i]]]]
    ELSE <<>>

\* sellers.find(x => x.id === id): whether there is one
Found(list, id) == \E i \in 1..Len(list) : list[i].id = id

\* sellers.find(x => x.id === id): the first one
Find(list, id) ==
    list[CHOOSE i \in 1..Len(list) :
            list[i].id = id /\ \A j \in 1..(i - 1) : list[j].id # id].doc

\* (s.items || []).find(i => i.itemId === itemId)
HasItem(items, itemId) == \E i \in 1..Len(items) : items[i].itemId = itemId

FindItem(items, itemId) ==
    items[CHOOSE i \in 1..Len(items) :
            items[i].itemId = itemId /\ \A j \in 1..(i - 1) : items[j].itemId # itemId]

\* seedExampleData: the two example sellers, of which the first n were written
SeedSellers(n) ==
    LET a == [name  |-> "Seller A",
              items |-> <<[itemId |-> 1, name |-> "Item 1", price |-> 110],
                          [itemId |-> 2, name |-> "Item 2", price |-> 135]>>]
        b == [name  |-> "Seller B",
              items |-> <<[itemId |-> 3, name |-> "Item 1", price |-> 220],
                          [itemId |-> 4, name |-> "Item 2", price |-> 330]>>]
    IN  IF n = 0 THEN NoDocs
        ELSE IF n = 1 THEN Put(NoDocs, 1, a)
        ELSE Put(Put(NoDocs, 1, a), 2, b)

-----------------------------------------------------------------------------
(* History of the last handler: its name op, the seller a it was called    *)
(* for, a count n it reports, its outcome res, and done: it has returned.   *)

Event(op, a, n, res, done) ==
    [op |-> op, a |-> a, n |-> n, res |-> res, done |-> done]

\* no handler is in progress
Idle == last.done

\* the identifier a seller was ever given
SellerIds == 1..(nextSellerId - 1)

\* the item identifiers of the sellers in the store
ItemIdsOf(id) ==
    IF id \in DOMAIN sellers THEN {it.itemId : it \in Range(sellers[id].items)} ELSE {}

-----------------------------------------------------------------------------
(* Cart engine                                                              *)

\* selectSeller(id, keepQty) from its first statement to its return or to the
\* not-found branch; cart is pendingCart as the caller left it, ev the
\* caller's event.  In the not-found branch the call has not returned: it
\* awaits renderPurchaseTab, which calls selectSeller(selectedSellerId, true)
selectSeller(id, keepQty, ok, cart, ev) ==
    LET list == getData(sellers, ok)
    IN  /\ selectedSellerId' = id
        /\ IF Found(list, id)
           THEN /\ pendingCart' = (IF keepQty THEN cart ELSE EmptyCart)
                /\ last' = [ev EXCEPT !.done = TRUE]
           ELSE /\ pendingCart' = cart
                /\ last' = [ev EXCEPT !.done = FALSE]

\* a click on a seller of the purchase tab: selectSeller(id)
SelectSeller(id, ok) ==
    /\ Idle
    /\ selectSeller(id, FALSE, ok, pendingCart, Event("selectSeller", id, 0, "", TRUE))
    /\ UNCHANGED <<sellers, purchases, nextSellerId, nextPurchaseId, nextItemId,
                   lastGeneratedBillIds, billPreview, form, committed, week>>

\* renderPurchaseTab inside the not-found branch: selectSeller(selectedSellerId, true)
RenderPurchaseTabRetry(ok) ==
    /\ ~Idle
    /\ selectSeller(selectedSellerId, TRUE, ok, pendingCart, last)
    /\ UNCHANGED <<sellers, purchases, nextSellerId, nextPurchaseId, nextItemId,
                   lastGeneratedBillIds, billPreview, form, committed, week>>

\* a click on the purchase tab: renderPurchaseTab
RenderPurchaseTab(ok) ==
    /\ Idle
    /\ IF selectedSellerId # 0
       THEN selectSeller(selectedSellerId, TRUE, ok, pendingCart,
                         Event("renderPurchaseTab", 0, 0, "", TRUE))
       ELSE /\ last' = Event("renderPurchaseTab", 0, 0, "", TRUE)
            /\ UNCHANGED <<selectedSellerId, pendingCart>>
    /\ UNCHANGED <<sellers, purchases, nextSellerId, nextPurchaseId, nextItemId,
                   lastGeneratedBillIds, billPreview, form, committed, week>>

\* a step that does not floor at zero
ChangeQtyValueNoFloor(cart, itemId, delta) == CartGetOr0(cart, itemId) + delta

\* Math.max(0, (pendingCart[itemId] || 0) + delta)
ChangeQtyValue(cart, itemId, delta) == JsMax0(CartGetOr0(cart, itemId) + delta)

changeQty(itemId, delta, ok) ==
    /\ Idle
    /\ selectedSellerId # 0
    /\ ChangeQtyValue(pendingCart, itemId, delta) <= MaxQty
    /\ selectSeller(selectedSellerId, TRUE, ok,
                    CartSet(pendingCart, itemId, ChangeQtyValue(pendingCart, itemId, delta)),
                    Event("changeQty", 0, 0, "", TRUE))
    /\ UNCHANGED <<sellers, purchases, nextSellerId, nextPurchaseId, nextItemId,
                   lastGeneratedBillIds, billPreview, form, committed, week>>

\* Math.max(0, parseInt(val || 0, 10))
SetQtyValue(val) == JsMax0(ParseQty(val))

\* setQty, then renderCartFooter, which only reads
setQty(itemId, val) ==
    /\ Idle
    /\ selectedSellerId # 0
    /\ pendingCart' = CartSet(pendingCart, itemId, SetQtyValue(val))
    /\ last' = Event("setQty", 0, 0, "", TRUE)
    /\ UNCHANGED <<sellers, purchases, nextSellerId, nextPurchaseId, nextItemId,
                   selectedSellerId, lastGeneratedBillIds, billPreview, form,
                   committed, week>>

clearCart(ok) ==
    /\ Idle
    /\ selectedSellerId # 0
    /\ selectSeller(selectedSellerId, TRUE, ok, EmptyCart,
                    Event("clearCart", 0, 0, "", TRUE))
    /\ UNCHANGED <<sellers, purchases, nextSellerId, nextPurchaseId, nextItemId,
                   lastGeneratedBillIds, billPreview, form, committed, week>>

\* lines built from every cart entry, whatever its quantity
PurchaseLinesUnfiltered(cart, items) ==
    LET kept == SelectSeq(SortedIds(DOMAIN cart), LAMBDA k : HasItem(items, k))
    IN  [i \in 1..Len(kept) |->
            [itemId |-> kept[i],
             name   |-> FindItem(items, kept[i]).name,
             price  |-> FindItem(items, kept[i]).price,
             qty    |-> cart[kept[i]]]]

\* the lines savePurchase builds: the cart entries with q > 0, in the
\* cart's order, joined with the seller's items; an entry with no item is dropped
PurchaseLines(cart, items) ==
    LET pos  == SelectSeq(SortedIds(DOMAIN cart), LAMBDA k : JsGt0(cart[k]))
        kept == SelectSeq(pos, LAMBDA k : HasItem(items, k))
    IN  [i \in 1..Len(kept) |->
            [itemId |-> kept[i],
             name   |-> FindItem(items, kept[i]).name,
             price  |-> FindItem(items, kept[i]).price,
             qty    |-> cart[kept[i]]]]

\* the day the page is used on: todayISO()
Today == <<2024, 1, 10>>

\* the values of the purchase date input
PurchaseDates == {<<2024, 1, 2>>, <<2024, 1, 10>>}

\* a savePurchase that empties the cart before the create has succeeded
savePurchaseClearsFirst(dateInput, okList, okAdd, okShow) ==
    LET date  == IF dateInput = <<>> THEN Today ELSE dateInput
        list  == getData(sellers, okList)
        s     == Find(list, selectedSellerId)
        items == PurchaseLines(pendingCart, s.items)
        zeros == Cardinality({k \in DOMAIN pendingCart : ~JsGt0(pendingCart[k])})
        ev(res) == Event("savePurchase", selectedSellerId, zeros, res, TRUE)
        stay  == UNCHANGED <<purchases, nextPurchaseId, selectedSellerId, pendingCart>>
    IN  /\ Idle
        /\ IF selectedSellerId = 0
           THEN last' = Event("savePurchase", 0, 0, "noSeller", TRUE) /\ stay
           ELSE IF ~Found(list, selectedSellerId)
           THEN last' = ev("notFound") /\ stay
           ELSE IF items = <<>>
           THEN last' = ev("empty") /\ stay
           ELSE IF ~okAdd
           THEN /\ last' = ev("error")
                /\ pendingCart' = EmptyCart
                /\ UNCHANGED <<purchases, nextPurchaseId, selectedSellerId>>
           ELSE /\ nextPurchaseId <= MaxSaved
                /\ purchases' = Put(purchases, nextPurchaseId,
                                    [sellerId   |-> selectedSellerId,
                                     sellerName |-> s.name,
                                     date       |-> date,
                                     items      |-> items,
                                     billed     |-> FALSE])
                /\ nextPurchaseId' = nextPurchaseId + 1
                /\ selectSeller(selectedSellerId, TRUE, okShow, EmptyCart, ev("saved"))
        /\ UNCHANGED <<sellers, nextSellerId, nextItemId, lastGeneratedBillIds,
                       billPreview, form, committed, week>>

\* savePurchase; dateInput is the value of #purchaseDate, okList, okAdd and
\* okShow the outcomes of its three store calls
savePurchase(dateInput, okList, okAdd, okShow) ==
    LET date  == IF dateInput = <<>> THEN Today ELSE dateInput
        list  == getData(sellers, okList)
        s     == Find(list, selectedSellerId)
        items == PurchaseLines(pendingCart, s.items)
        zeros == Cardinality({k \in DOMAIN pendingCart : ~JsGt0(pendingCart[k])})
        ev(res) == Event("savePurchase", selectedSellerId, zeros, res, TRUE)
        stay  == UNCHANGED <<purchases, nextPurchaseId, selectedSellerId, pendingCart>>
    IN  /\ Idle
        /\ IF selectedSellerId = 0
           THEN last' = Event("savePurchase", 0, 0, "noSeller", TRUE) /\ stay
           ELSE IF ~Found(list, selectedSellerId)
           THEN last' = ev("notFound") /\ stay
           ELSE IF items = <<>>
           THEN last' = ev("empty") /\ stay
           ELSE IF ~okAdd
           THEN last' = ev("error") /\ stay
           ELSE /\ nextPurchaseId <= MaxSaved
                /\ purchases' = Put(purchases, nextPurchaseId,
                                    [sellerId   |-> selectedSellerId,
                                     sellerName |-> s.name,
                                     date       |-> date,
                                     items      |-> items,
                                     billed     |-> FALSE])
                /\ nextPurchaseId' = nextPurchaseId + 1
                /\ selectSeller(selectedSellerId, TRUE, okShow, EmptyCart, ev("saved"))
        /\ UNCHANGED <<sellers, nextSellerId, nextItemId, lastGeneratedBillIds,
                       billPreview, form, committed, week>>

-----------------------------------------------------------------------------
(* Billing aggregation engine                                               *)

\* the local calendar date of an instant: getFullYear(), getMonth(), getDate()
LocalCivil(t, off) == CivilFromDays((t + off) \div MinutesPerDay)

\* new Date(y, m, d).toISOString().slice(0,10): local midnight of a day
\* number, printed as its UTC date
LocalMidnightISO(days, off) == ToISODate(days * MinutesPerDay - off)

\* the range generateBill bills for a period; cf and ct are the custom inputs,
\* off the host's offset from UTC in minutes
BillRange(period, cf, ct, off) ==
    LET d     == LocalCivil(ParseISO(Today), off)
        first == DaysFromCivil(d[1], d[2], 1)
        next  == IF d[2] = 12 THEN DaysFromCivil(d[1] + 1, 1, 1)
                 ELSE DaysFromCivil(d[1], d[2] + 1, 1)
    IN  IF period = "month"
        THEN [from |-> LocalMidnightISO(first, off), to |-> LocalMidnightISO(next - 1, off)]
        ELSE IF period = "custom"
        THEN [from |-> cf, to |-> ct]
        ELSE [from |-> weekStart(Today, off), to |-> weekEnd(Today, off)]

\* a filter that forgets the billed flag
BillFilterAnyBilled(all, from, to) ==
    SelectSeq(all, LAMBDA p : IsoLE(from, p.doc.date) /\ IsoLE(p.doc.date, to))

\* a filter whose range excludes its last day
BillFilterOpenEnd(all, from, to) ==
    SelectSeq(all, LAMBDA p : ~p.doc.billed /\ IsoLE(from, p.doc.date)
                              /\ IsoLE(p.doc.date, to) /\ p.doc.date # to)

\* all.filter(p => !p.billed && p.date >= from && p.date <= to)
BillFilter(all, from, to) ==
    SelectSeq(all, LAMBDA p : ~p.doc.billed /\ IsoLE(from, p.doc.date) /\ IsoLE(p.doc.date, to))

\* a grouping that keeps only the latest line of an item
AddLineOverwrite(by, p, it) ==
    LET entry == by[p.doc.sellerId]
        line  == [date |-> p.doc.date, qty |-> it.qty, amount |-> it.qty * it.price]
    IN  Put(by, p.doc.sellerId,
            [entry EXCEPT !.items = Put(entry.items, it.itemId,
                                        [name |-> it.name, price |-> it.price,
                                         lines |-> <<line>>])])

\* one item of one purchase: lines.push({date, qty, amount: qty * price})
AddLine(by, p, it) ==
    LET entry == by[p.doc.sellerId]
        cur   == IF it.itemId \in DOMAIN entry.items
                 THEN entry.items[it.itemId]
                 ELSE [name |-> it.name, price |-> it.price, lines |-> <<>>]
        line  == [date |-> p.doc.date, qty |-> it.qty, amount |-> it.qty * it.price]
    IN  Put(by, p.doc.sellerId,
            [entry EXCEPT !.items = Put(entry.items, it.itemId,
                                        [cur EXCEPT !.lines = Append(cur.lines, line)])])

RECURSIVE AddLines(_, _, _)
AddLines(by, p, items) ==
    IF items = <<>> THEN by ELSE AddLines(AddLine(by, p, Head(items)), p, Tail(items))

\* filtered.forEach(p => ...): the bill's groups, by seller and by item
RECURSIVE GroupBySeller(_, _)
GroupBySeller(by, filtered) ==
    IF filtered = <<>> THEN by
    ELSE LET p   == Head(filtered)
             by0 == IF p.doc.sellerId \in DOMAIN by THEN by
                    ELSE Put(by, p.doc.sellerId,
                             [sellerName |-> p.doc.sellerName, items |-> NoDocs])
         IN  GroupBySeller(AddLines(by0, p, p.doc.items), Tail(filtered))

\* lines.sort((a,b) => a.date.localeCompare(b.date)): stable, ascending
RECURSIVE InsertByDate(_, _)
InsertByDate(sorted, x) ==
    IF sorted = <<>> THEN <<x>>
    ELSE IF IsoLE(Head(sorted).date, x.date)
    THEN <<Head(sorted)>> \o InsertByDate(Tail(sorted), x)
    ELSE <<x>> \o sorted

RECURSIVE SortByDate(_)
SortByDate(lines) ==
    IF lines = <<>> THEN <<>>
    ELSE InsertByDate(SortByDate(SubSeq(lines, 1, Len(lines) - 1)), lines[Len(lines)])

\* the sum of f over the keys ks, one key after the other
RECURSIVE SumOver(_, _)
SumOver(f, ks) ==
    IF ks = <<>> THEN 0 ELSE f[Head(ks)] + SumOver(f, Tail(ks))

\* item.lines.reduce((s,x) => s + x.amount, 0)
ItemAmount(item) == SumSeq([i \in 1..Len(item.lines) |-> item.lines[i].amount])

\* parseRs: Math.round(Number(n || 0)); the amounts are integers
parseRs(n) == JsOr0(n)

\* renderBillHTML: what the bill shows
renderBillHTML(bySeller, from, to) ==
    LET rows(sid) ==
            [iid \in DOMAIN bySeller[sid].items |->
                LET item == bySeller[sid].items[iid]
                    srt  == SortByDate(item.lines)
                IN  [price  |-> parseRs(item.price),
                     lines  |-> [i \in 1..Len(srt) |-> <<srt[i].date, srt[i].qty>>],
                     amount |-> parseRs(ItemAmount(item))]]
        sellerTotal ==
            [sid \in DOMAIN bySeller |->
                SumOver([iid \in DOMAIN bySeller[sid].items |->
                            ItemAmount(bySeller[sid].items[iid])],
                        SortedIds(DOMAIN bySeller[sid].items))]
    IN  [from        |-> from,
         to          |-> to,
         sellers     |-> [sid \in DOMAIN bySeller |->
                             [rows |-> rows(sid), sellerTotal |-> parseRs(sellerTotal[sid])]],
         grandTotal  |-> parseRs(SumOver(sellerTotal, SortedIds(DOMAIN bySeller)))]

NoBill == [from |-> <<>>, to |-> <<>>, sellers |-> NoDocs, grandTotal |-> 0]

\* the purchase identifiers of a list of documents: filtered.map(p => p.id)
IdsOf(list) == [i \in 1..Len(list) |-> list[i].id]

generateBill(period, cf, ct, off, ok) ==
    LET r        == BillRange(period, cf, ct, off)
        all      == getData(purchases, ok)
        filtered == BillFilter(all, r.from, r.to)
        stay     == UNCHANGED <<lastGeneratedBillIds, billPreview>>
    IN  /\ Idle
        /\ IF period = "custom" /\ (cf = <<>> \/ ct = <<>>)
           THEN last' = Event("generateBill", 0, 0, "noDates", TRUE) /\ stay
           ELSE IF filtered = <<>>
           THEN last' = Event("generateBill", 0, 0, "none", TRUE) /\ stay
           ELSE /\ lastGeneratedBillIds' = IdsOf(filtered)
                /\ billPreview' = renderBillHTML(GroupBySeller(NoDocs, filtered), r.from, r.to)
                /\ last' = Event("generateBill", 0, Len(filtered), "bill", TRUE)
        /\ UNCHANGED <<sellers, purchases, nextSellerId, nextPurchaseId, nextItemId,
                       selectedSellerId, pendingCart, form, committed, week>>

\* the index at which the markAsBilled loop stops: the first update that
\* fails, because the document is gone or the store fails at failAt
FirstFailure(ids, failAt) ==
    LET bad == {i \in 1..Len(ids) : ids[i] \notin DOMAIN purchases \/ i = failAt}
    IN  IF bad = {} THEN Len(ids) + 1 ELSE CHOOSE i \in bad : \A j \in bad : i <= j

\* a commit that undoes its updates when one of them fails
MarkBilledRollback(ps, ids, k) ==
    [id \in DOMAIN ps |->
        IF k = Len(ids) + 1 /\ (\E i \in 1..Len(ids) : ids[i] = id)
        THEN [ps[id] EXCEPT !.billed = TRUE] ELSE ps[id]]

\* updateData(PURCHASES, id, {billed: true, billedAt}) for the ids before k
MarkBilled(ps, ids, k) ==
    [id \in DOMAIN ps |->
        IF \E i \in 1..(k - 1) : ids[i] = id THEN [ps[id] EXCEPT !.billed = TRUE] ELSE ps[id]]

markAsBilled(confirmed, failAt) ==
    LET ids == lastGeneratedBillIds
        k   == FirstFailure(ids, failAt)
        ev(res) == Event("markAsBilled", 0, k - 1, res, TRUE)
    IN  /\ Idle
        /\ IF ids = <<>>
           THEN last' = Event("markAsBilled", 0, 0, "nothing", TRUE) /\ UNCHANGED <<purchases, committed>>
           ELSE IF ~confirmed
           THEN last' = Event("markAsBilled", 0, 0, "cancelled", TRUE) /\ UNCHANGED <<purchases, committed>>
           ELSE /\ purchases' = MarkBilled(purchases, ids, k)
                /\ IF k = Len(ids) + 1
                   THEN last' = ev("ok") /\ committed' = committed \cup Range(ids)
                   ELSE last' = ev("error") /\ UNCHANGED committed
        /\ UNCHANGED <<sellers, nextSellerId, nextPurchaseId, nextItemId, selectedSellerId,
                       pendingCart, lastGeneratedBillIds, billPreview, form, week>>

-----------------------------------------------------------------------------
(* Seller deletion and its cascade                                          *)

\* forceRefreshAllData: the selection and the cart are cleared; the renders
\* that follow read the store and, with no seller selected, change nothing
forceRefreshAllData ==
    /\ selectedSellerId' = 0
    /\ pendingCart' = EmptyCart

\* a cascade that stops after the seller's first purchase
SellerPurchasesFirst(list, id) ==
    LET all == SelectSeq(list, LAMBDA p : p.doc.sellerId = id)
    IN  IF all = <<>> THEN <<>> ELSE <<Head(all)>>

\* purchases.filter(p => p.sellerId === id)
SellerPurchases(list, id) == SelectSeq(list, LAMBDA p : p.doc.sellerId = id)

\* deleteSeller; okList is the outcome of reading the purchases, failAt the
\* delete call that fails: one of the n purchase deletes, n + 1 the delete of
\* the seller, n + 2 none.  Its outcomes: "ok", "okUnread" (success is
\* reported although the purchases could not be read), "error", "cancelled"
deleteSeller(id, confirmed, okList, failAt) ==
    LET sp   == SellerPurchases(getData(purchases, okList), id)
        n    == Len(sp)
        gone == {sp[i].id : i \in 1..(IF failAt <= n THEN failAt - 1 ELSE n)}
        ev(res) == Event("deleteSeller", id, Cardinality(gone), res, TRUE)
    IN  /\ Idle
        /\ failAt \in 1..(n + 2)
        /\ IF ~confirmed
           THEN /\ last' = Event("deleteSeller", id, 0, "cancelled", TRUE)
                /\ UNCHANGED <<sellers, purchases, selectedSellerId, pendingCart>>
           ELSE IF failAt <= n + 1
           THEN /\ purchases' = Drop(purchases, gone)
                /\ last' = ev("error")
                /\ UNCHANGED <<sellers, selectedSellerId, pendingCart>>
           ELSE /\ purchases' = Drop(purchases, gone)
                /\ sellers' = Drop(sellers, {id})
                /\ forceRefreshAllData
                /\ last' = ev(IF okList THEN "ok" ELSE "okUnread")
        /\ UNCHANGED <<nextSellerId, nextPurchaseId, nextItemId, lastGeneratedBillIds,
                       billPreview, form, committed, week>>

-----------------------------------------------------------------------------
(* Seller form: the modal #sellerModal.  form.editId is dataset.editId (0   *)
(* is the empty string), form.rows the rows of #itemsList.  A row holds its *)
(* name and price inputs; existing is the itemId of the item the row was    *)
(* filled from (0 for a blank row), which the row itself does not store.    *)

NoForm == [open |-> FALSE, editId |-> 0, name |-> "", rows |-> <<>>]

BlankRow == [existing |-> 0, name |-> "", price |-> 0]

\* the values typed into a name input
NameInputs == {"Seller C"}

\* the values typed into the inputs of a row
ItemNameInputs == {" ", "Item 9"}

ItemPriceInputs == {50}

\* value.trim()
Trim(v) == IF v = " " THEN "" ELSE v

\* addItemRow(item) for each item of the seller, addItemRow() when it has none
RowsOf(items) ==
    IF items = <<>> THEN <<BlankRow>>
    ELSE [i \in 1..Len(items) |->
            [existing |-> items[i].itemId, name |-> items[i].name, price |-> items[i].price]]

\* the + Add Seller button: openSellerModal()
openSellerModal ==
    /\ Idle
    /\ form' = [open |-> TRUE, editId |-> 0, name |-> "", rows |-> <<BlankRow>>]
    /\ last' = Event("openSellerModal", 0, 0, "", TRUE)
    /\ UNCHANGED <<sellers, purchases, nextSellerId, nextPurchaseId, nextItemId,
                   selectedSellerId, pendingCart, lastGeneratedBillIds, billPreview,
                   committed, week>>

\* editSeller(id): openSellerModal(s) for the seller read, or the not-found alert
editSeller(id, ok) ==
    LET list == getData(sellers, ok)
        s    == Find(list, id)
    IN  /\ Idle
        /\ IF Found(list, id)
           THEN /\ form' = [open |-> TRUE, editId |-> id, name |-> s.name,
                            rows |-> RowsOf(s.items)]
                /\ last' = Event("editSeller", id, 0, "open", TRUE)
           ELSE /\ last' = Event("editSeller", id, 0, "notFound", TRUE)
                /\ UNCHANGED form
        /\ UNCHANGED <<sellers, purchases, nextSellerId, nextPurchaseId, nextItemId,
                       selectedSellerId, pendingCart, lastGeneratedBillIds, billPreview,
                       committed, week>>

FormStep(f) ==
    /\ Idle
    /\ form.open
    /\ form' = f
    /\ last' = Event("input", 0, 0, "", TRUE)
    /\ UNCHANGED <<sellers, purchases, nextSellerId, nextPurchaseId, nextItemId,
                   selectedSellerId, pendingCart, lastGeneratedBillIds, billPreview,
                   committed, week>>

\* the + Add Item button: addItemRow()
addItemRow ==
    /\ Len(form.rows) < MaxRows
    /\ FormStep([form EXCEPT !.rows = Append(@, BlankRow)])

\* the Remove button of row i: row.remove()
RemoveRow(i) ==
    /\ i \in 1..Len(form.rows)
    /\ FormStep([form EXCEPT !.rows = SubSeq(@, 1, i - 1) \o SubSeq(@, i + 1, Len(@))])

\* typing into #sellerName
TypeSellerName(v) == FormStep([form EXCEPT !.name = v])

\* typing into the name and price inputs of row i
TypeItem(i, nm, pr) ==
    /\ i \in 1..Len(form.rows)
    /\ FormStep([form EXCEPT !.rows[i].name = nm, !.rows[i].price = pr])

\* the rows handleSellerSubmit keeps: if (!nameInput.value.trim()) continue
KeptRows(rows) == SelectSeq(rows, LAMBDA r : Trim(r.name) # "")

\* the items handleSellerSubmit builds; crypto.randomUUID() gives each a fresh
\* identifier, here the next unused numbers from firstId
SubmitItems(rows, firstId) ==
    LET kept == KeptRows(rows)
    IN  [k \in 1..Len(kept) |->
            [itemId |-> firstId + k - 1,
             name   |-> Trim(kept[k].name),
             price  |-> kept[k].price]]

\* handleSellerSubmit; okList and okWrite are the outcomes of its read and of
\* its write.  Its outcomes: "noName", "noItems", "updated", "createdNotFound",
\* "created", "error".  The modal is hidden on success; its rows stay in the
\* page until the modal is opened again.  The identifiers of a run that wrote
\* nothing are seen nowhere, so the counter moves only with a write
handleSellerSubmit(okList, okWrite) ==
    LET name  == Trim(form.name)
        items == SubmitItems(form.rows, nextItemId)
        data  == [name |-> name, items |-> items]
        list  == getData(sellers, okList)
        ev(res) == Event("handleSellerSubmit", form.editId, Len(items), res, TRUE)
        stay  == UNCHANGED <<sellers, nextSellerId, nextItemId, selectedSellerId,
                             pendingCart, form>>
        wrote == /\ nextItemId' = nextItemId + Len(items)
                 /\ form' = [form EXCEPT !.open = FALSE]
                 /\ forceRefreshAllData
        create == /\ nextSellerId <= MaxSellers
                  /\ sellers' = Put(sellers, nextSellerId, data)
                  /\ nextSellerId' = nextSellerId + 1
                  /\ wrote
    IN  /\ Idle
        /\ form.open
        /\ IF name = ""
           THEN last' = ev("noName") /\ stay
           ELSE IF items = <<>>
           THEN last' = ev("noItems") /\ stay
           ELSE IF ~okWrite
           THEN last' = ev("error") /\ stay
           ELSE /\ nextItemId + Len(items) - 1 <= MaxItemId
                /\ IF form.editId # 0 /\ Found(list, form.editId)
                   THEN /\ sellers' = Put(sellers, form.editId, data)
                        /\ UNCHANGED nextSellerId
                        /\ wrote
                        /\ last' = ev("updated")
                   ELSE IF form.editId # 0
                   THEN create /\ last' = ev("createdNotFound")
                   ELSE create /\ last' = ev("created")
        /\ UNCHANGED <<purchases, nextPurchaseId, lastGeneratedBillIds, billPreview,
                       committed, week>>

-----------------------------------------------------------------------------
(* The application: the page after DOMContentLoaded, and its handlers       *)

NoWeek == [d |-> <<>>, off |-> 0, ws |-> <<>>, we |-> <<>>]

\* no savePurchase call is suspended
NoSave == [phase |-> "idle", list |-> <<>>, date |-> <<>>, id |-> 0, items |-> <<>>]

\* no deleteSeller call is suspended
NoDelete == [phase |-> "idle", id |-> 0, sp |-> <<>>]

\* no generateBill call is suspended
NoRun == [phase |-> "idle", from |-> <<>>, to |-> <<>>, all |-> <<>>]

NoRuns == [r \in 1..MaxBillRuns |-> NoRun]

\* the page has loaded on an empty store and seedExampleData has written the
\* first n example sellers (n < 2 when a write failed)
Init ==
    /\ \E n \in 0..2 :
          /\ sellers = SeedSellers(n)
          /\ nextSellerId = n + 1
          /\ nextItemId = 2 * n + 1
    /\ purchases = NoDocs
    /\ nextPurchaseId = 1
    /\ selectedSellerId = 0
    /\ pendingCart = EmptyCart
    /\ lastGeneratedBillIds = <<>>
    /\ billPreview = NoBill
    /\ form = NoForm
    /\ committed = {}
    /\ last = Event("init", 0, 0, "", TRUE)
    /\ week = NoWeek
    /\ saveRun = NoSave
    /\ deleteRun = NoDelete
    /\ billRuns = NoRuns
    /\ shownIds = <<>>

\* the purchase tab and the sellers tab
Next ==
    /\ UNCHANGED asyncVars
    /\ \/ \E id \in SellerIds, ok \in BOOLEAN : SelectSeller(id, ok)
       \/ \E ok \in BOOLEAN : RenderPurchaseTabRetry(ok)
       \/ \E ok \in BOOLEAN : RenderPurchaseTab(ok)
       \/ \E i \in ItemIdsOf(selectedSellerId), d \in Deltas, ok \in BOOLEAN : changeQty(i, d, ok)
       \/ \E i \in ItemIdsOf(selectedSellerId), v \in QtyInputs : setQty(i, v)
       \/ \E ok \in BOOLEAN : clearCart(ok)
       \/ \E d \in {<<>>}, ok1, ok2, ok3 \in BOOLEAN : savePurchase(d, ok1, ok2, ok3)
       \/ \E id \in SellerIds, c, ok \in BOOLEAN, f \in 1..(MaxSaved + 2) :
             /\ ~c => ok /\ f = 1
             /\ deleteSeller(id, c, ok, f)

Spec == Init /\ [][Next]_vars

-----------------------------------------------------------------------------
(* The billing engine on a store earlier sessions have filled               *)

\* a cart a purchase was saved from: both items on the first date, one on the others
SampleCart(items, date) ==
    IF date = <<2024, 1, 2>>
    THEN Put(Put(NoDocs, items[1].itemId, 2), items[2].itemId, 1)
    ELSE Put(NoDocs, items[1].itemId, 1)

\* the purchase documents savePurchase writes for the example sellers, none
\* of them billed yet
SampleDocs ==
    LET seed == SeedSellers(2)
    IN  {[sellerId   |-> sid,
          sellerName |-> seed[sid].name,
          date       |-> d,
          items      |-> PurchaseLines(SampleCart(seed[sid].items, d), seed[sid].items),
          billed     |-> FALSE] : sid \in DOMAIN seed, d \in PurchaseDates}

BillInit ==
    /\ sellers = SeedSellers(2)
    /\ nextSellerId = 3
    /\ nextItemId = 5
    /\ \E n \in 0..MaxPurchases :
          /\ purchases \in [1..n -> SampleDocs]
          /\ nextPurchaseId = n + 1
    /\ selectedSellerId = 0
    /\ pendingCart = EmptyCart
    /\ lastGeneratedBillIds = <<>>
    /\ billPreview = NoBill
    /\ form = NoForm
    /\ committed = {}
    /\ last = Event("init", 0, 0, "", TRUE)
    /\ week = NoWeek
    /\ saveRun = NoSave
    /\ deleteRun = NoDelete
    /\ billRuns = NoRuns
    /\ shownIds = <<>>

\* the bills tab and the sellers tab
BillNext ==
    /\ UNCHANGED asyncVars
    /\ \/ \E period \in {"week", "month", "custom"}, cf \in {<<2024, 1, 2>>, <<>>},
             ct \in PurchaseDates \cup {<<>>}, off \in TzOffsets, ok \in BOOLEAN :
             /\ period = "custom" => off = 0
             /\ period # "custom" => cf = <<>> /\ ct = <<>>
             /\ generateBill(period, cf, ct, off, ok)
       \/ \E c \in BOOLEAN, f \in 1..(MaxPurchases + 1) :
             /\ ~c => f = 1
             /\ markAsBilled(c, f)
       \/ \E id \in SellerIds, c, ok \in BOOLEAN, f \in 1..(MaxPurchases + 2) :
             /\ ~c => ok /\ f = 1
             /\ deleteSeller(id, c, ok, f)

BillSpec == BillInit /\ [][BillNext]_vars

-----------------------------------------------------------------------------
(* The sellers tab and its form                                             *)

SellerNext ==
    /\ UNCHANGED asyncVars
    /\ \/ openSellerModal
       \/ \E id \in SellerIds, ok \in BOOLEAN : editSeller(id, ok)
       \/ addItemRow
       \/ \E i \in 1..MaxRows : RemoveRow(i)
       \/ \E v \in NameInputs : TypeSellerName(v)
       \/ \E i \in 1..MaxRows, nm \in ItemNameInputs, pr \in ItemPriceInputs : TypeItem(i, nm, pr)
       \/ \E ok1, ok2 \in BOOLEAN : handleSellerSubmit(ok1, ok2)
       \/ \E id \in SellerIds : deleteSeller(id, TRUE, TRUE, 1)

SellerSpec == Init /\ [][SellerNext]_vars

-----------------------------------------------------------------------------
(* The week functions over a window of dates and the host's time zones      *)

\* the first day of the window: 2023-12-18
WindowStart == DaysFromCivil(2023, 12, 18)

WindowDates == {CivilFromDays(WindowStart + k) : k \in 0..(DateSpan - 1)}

\* weekStart(d) and weekEnd(d) on a host off minutes ahead of UTC
ComputeWeek(d, off) ==
    /\ week' = [d |-> d, off |-> off, ws |-> weekStart(d, off), we |-> weekEnd(d, off)]
    /\ UNCHANGED <<sellers, purchases, nextSellerId, nextPurchaseId, nextItemId,
                   selectedSellerId, pendingCart, lastGeneratedBillIds, billPreview,
                   form, committed, last>>

WeekNext ==
    /\ UNCHANGED asyncVars
    /\ \E d \in WindowDates, off \in TzOffsets : ComputeWeek(d, off)

WeekSpec == Init /\ [][WeekNext]_vars

-----------------------------------------------------------------------------
(* generateBill suspended at its await (line 717).  The first part of a     *)
(* call reads the inputs and asks the store for the purchases; the store    *)
(* answers with the documents it holds at that moment.  The second part     *)
(* runs when the answer arrives, in one piece: filter, group, assign         *)
(* lastGeneratedBillIds, openBillModal.                                      *)

\* generateBill up to `await getData(COLLECTIONS.PURCHASES)`
generateBillAwait(r, period, cf, ct, off, ok) ==
    LET rg == BillRange(period, cf, ct, off)
    IN  /\ billRuns[r].phase = "idle"
        /\ IF period = "custom" /\ (cf = <<>> \/ ct = <<>>)
           THEN /\ last' = Event("generateBill", 0, 0, "noDates", TRUE)
                /\ UNCHANGED billRuns
           ELSE /\ billRuns' = [billRuns EXCEPT ![r] =
                                   [phase |-> "read", from |-> rg.from, to |-> rg.to,
                                    all |-> getData(purchases, ok)]]
                /\ UNCHANGED last
        /\ UNCHANGED <<sellers, purchases, nextSellerId, nextPurchaseId, nextItemId,
                       selectedSellerId, pendingCart, lastGeneratedBillIds, billPreview,
                       form, committed, week, saveRun, deleteRun, shownIds>>

\* a second part that forgets the commit target when it finds no purchase
generateBillResumeClears(r) ==
    LET run      == billRuns[r]
        filtered == BillFilter(run.all, run.from, run.to)
    IN  /\ run.phase = "read"
        /\ billRuns' = [billRuns EXCEPT ![r] = NoRun]
        /\ IF filtered = <<>>
           THEN /\ last' = Event("generateBill", 0, 0, "none", TRUE)
                /\ lastGeneratedBillIds' = <<>>
                /\ UNCHANGED <<billPreview, shownIds>>
           ELSE /\ lastGeneratedBillIds' = IdsOf(filtered)
                /\ billPreview' = renderBillHTML(GroupBySeller(NoDocs, filtered), run.from, run.to)
                /\ shownIds' = IdsOf(filtered)
                /\ last' = Event("generateBill", 0, Len(filtered), "bill", TRUE)
        /\ UNCHANGED <<sellers, purchases, nextSellerId, nextPurchaseId, nextItemId,
                       selectedSellerId, pendingCart, form, committed, week, saveRun, deleteRun>>

\* generateBill from the answer of the store to its end (lines 718-736)
generateBillResume(r) ==
    LET run      == billRuns[r]
        filtered == BillFilter(run.all, run.from, run.to)
    IN  /\ run.phase = "read"
        /\ billRuns' = [billRuns EXCEPT ![r] = NoRun]
        /\ IF filtered = <<>>
           THEN /\ last' = Event("generateBill", 0, 0, "none", TRUE)
                /\ UNCHANGED <<lastGeneratedBillIds, billPreview, shownIds>>
           ELSE /\ lastGeneratedBillIds' = IdsOf(filtered)
                /\ billPreview' = renderBillHTML(GroupBySeller(NoDocs, filtered), run.from, run.to)
                /\ shownIds' = IdsOf(filtered)
                /\ last' = Event("generateBill", 0, Len(filtered), "bill", TRUE)
        /\ UNCHANGED <<sellers, purchases, nextSellerId, nextPurchaseId, nextItemId,
                       selectedSellerId, pendingCart, form, committed, week, saveRun, deleteRun>>

\* the bills tab with overlapping generateBill calls
AsyncBillNext ==
    \/ \E r \in 1..MaxBillRuns, period \in {"week", "month"}, off \in TzOffsets,
          ok \in BOOLEAN :
          generateBillAwait(r, period, <<>>, <<>>, off, ok)
    \/ \E r \in 1..MaxBillRuns : generateBillResume(r)
    \/ markAsBilled(TRUE, MaxPurchases + 1) /\ UNCHANGED asyncVars
    \/ \E id \in SellerIds : deleteSeller(id, TRUE, TRUE, MaxPurchases + 2) /\ UNCHANGED asyncVars

AsyncBillSpec == BillInit /\ [][AsyncBillNext]_vars

-----------------------------------------------------------------------------
(* savePurchase and deleteSeller suspended at their awaits.  savePurchase   *)
(* awaits the sellers (line 660), then the create (line 682); what follows  *)
(* an await reads the globals as they are when the call is resumed.         *)
(* deleteSeller awaits the purchases (line 526) and then deletes what that  *)
(* answer lists.                                                             *)

OtherVars ==
    <<nextSellerId, nextItemId, lastGeneratedBillIds, billPreview, form, committed,
      week, billRuns, shownIds>>

\* savePurchase up to `await getData(COLLECTIONS.SELLERS)`
savePurchaseAwaitList(dateInput, okList) ==
    /\ Idle
    /\ saveRun.phase = "idle"
    /\ IF selectedSellerId = 0
       THEN /\ last' = Event("savePurchase", 0, 0, "noSeller", TRUE)
            /\ UNCHANGED saveRun
       ELSE /\ saveRun' = [NoSave EXCEPT !.phase = "read",
                                         !.list = getData(sellers, okList),
                                         !.date = IF dateInput = <<>> THEN Today ELSE dateInput]
            /\ UNCHANGED last
    /\ UNCHANGED <<sellers, purchases, nextPurchaseId, selectedSellerId, pendingCart, deleteRun>>
    /\ UNCHANGED OtherVars

\* savePurchase from the answer with the sellers to `await setData(...)`,
\* which the store applies (lines 661-689)
savePurchaseAwaitCreate(okAdd) ==
    LET s     == Find(saveRun.list, selectedSellerId)
        items == PurchaseLines(pendingCart, s.items)
        zeros == Cardinality({k \in DOMAIN pendingCart : ~JsGt0(pendingCart[k])})
        ev(res) == Event("savePurchase", selectedSellerId, zeros, res, TRUE)
        stop(res) == /\ last' = ev(res)
                     /\ saveRun' = NoSave
                     /\ UNCHANGED <<purchases, nextPurchaseId>>
    IN  /\ Idle
        /\ saveRun.phase = "read"
        /\ IF ~Found(saveRun.list, selectedSellerId)
           THEN stop("notFound")
           ELSE IF items = <<>>
           THEN stop("empty")
           ELSE IF ~okAdd
           THEN stop("error")
           ELSE /\ nextPurchaseId <= MaxSaved
                /\ purchases' = Put(purchases, nextPurchaseId,
                                    [sellerId   |-> selectedSellerId,
                                     sellerName |-> s.name,
                                     date       |-> saveRun.date,
                                     items      |-> items,
                                     billed     |-> FALSE])
                /\ nextPurchaseId' = nextPurchaseId + 1
                /\ saveRun' = [saveRun EXCEPT !.phase = "wrote", !.id = nextPurchaseId,
                                              !.items = items]
                /\ UNCHANGED last
        /\ UNCHANGED <<sellers, selectedSellerId, pendingCart, deleteRun>>
        /\ UNCHANGED OtherVars

\* savePurchase after the create: pendingCart = {} and
\* selectSeller(selectedSellerId, true) (lines 691-694); with no seller
\* selected the not-found branch of selectSeller ends at once (line 574)
savePurchaseResume(okShow) ==
    LET ev == Event("savePurchase", selectedSellerId, 0, "saved", TRUE)
    IN  /\ Idle
        /\ saveRun.phase = "wrote"
        /\ saveRun' = NoSave
        /\ IF selectedSellerId = 0
           THEN /\ pendingCart' = EmptyCart
                /\ last' = ev
                /\ UNCHANGED selectedSellerId
           ELSE selectSeller(selectedSellerId, TRUE, okShow, EmptyCart, ev)
        /\ UNCHANGED <<sellers, purchases, nextPurchaseId, deleteRun>>
        /\ UNCHANGED OtherVars

\* deleteSeller up to `await getData(COLLECTIONS.PURCHASES)` (lines 512-526)
deleteSellerAwaitList(id, okList) ==
    /\ Idle
    /\ deleteRun.phase = "idle"
    /\ deleteRun' = [phase |-> "read", id |-> id,
                     sp |-> SellerPurchases(getData(purchases, okList), id)]
    /\ UNCHANGED <<sellers, purchases, nextPurchaseId, selectedSellerId, pendingCart,
                   saveRun, last>>
    /\ UNCHANGED OtherVars

\* deleteSeller from the answer with the purchases to its end: the deletes
\* of the purchases listed, of the seller, and forceRefreshAllData
\* (lines 527-549)
deleteSellerResume ==
    /\ Idle
    /\ deleteRun.phase = "read"
    /\ purchases' = Drop(purchases, {deleteRun.sp[i].id : i \in 1..Len(deleteRun.sp)})
    /\ sellers' = Drop(sellers, {deleteRun.id})
    /\ forceRefreshAllData
    /\ last' = Event("deleteSeller", deleteRun.id, Len(deleteRun.sp), "ok", TRUE)
    /\ deleteRun' = NoDelete
    /\ UNCHANGED <<nextPurchaseId, saveRun>>
    /\ UNCHANGED OtherVars

\* the purchase tab and the sellers tab with overlapping handlers
AsyncSaveNext ==
    \/ \E ok \in BOOLEAN : savePurchaseAwaitList(<<>>, ok)
    \/ \E ok \in BOOLEAN : savePurchaseAwaitCreate(ok)
    \/ \E ok \in BOOLEAN : savePurchaseResume(ok)
    \/ \E id \in SellerIds : deleteSellerAwaitList(id, TRUE)
    \/ deleteSellerResume
    \/ \E id \in SellerIds : SelectSeller(id, TRUE) /\ UNCHANGED asyncVars
    \/ RenderPurchaseTabRetry(TRUE) /\ UNCHANGED asyncVars
    \/ \E i \in ItemIdsOf(selectedSellerId), d \in Deltas :
          changeQty(i, d, TRUE) /\ UNCHANGED asyncVars
    \/ \E i \in ItemIdsOf(selectedSellerId), v \in QtyInputs :
          setQty(i, v) /\ UNCHANGED asyncVars

AsyncSaveSpec == Init /\ [][AsyncSaveNext]_vars

-----------------------------------------------------------------------------
(* Properties of the billing engine and of the cascade, under BillSpec      *)

InRange(p, from, to) == IsoLE(from, p.date) /\ IsoLE(p.date, to)

\* the purchases of the store a bill for [from, to] covers
Billable(from, to) ==
    {id \in DOMAIN purchases : ~purchases[id].billed /\ InRange(purchases[id], from, to)}

\* sum over the lines of a purchase of qty * price
PurchaseTotal(p) == SumSeq([i \in 1..Len(p.items) |-> p.items[i].qty * p.items[i].price])

RECURSIVE SumSet(_, _)
SumSet(f, S) ==
    IF S = {} THEN 0
    ELSE LET x == CHOOSE y \in S : TRUE IN f[x] + SumSet(f, S \ {x})

BillShown == last.op = "generateBill" /\ last.res = "bill"

\* C1: the grand total of a generated bill is the sum, over the unbilled
\* purchases of the store dated within the bill's range, of qty * price over
\* their lines; each seller total is the sum of its item amounts and the grand
\* total the sum of the seller totals
C1_GrandTotal ==
    BillShown =>
        /\ billPreview.grandTotal =
              SumSet([id \in DOMAIN purchases |-> PurchaseTotal(purchases[id])],
                     Billable(billPreview.from, billPreview.to))
        /\ \A sid \in DOMAIN billPreview.sellers :
              billPreview.sellers[sid].sellerTotal =
                 SumSet([iid \in DOMAIN billPreview.sellers[sid].rows |->
                            billPreview.sellers[sid].rows[iid].amount],
                        DOMAIN billPreview.sellers[sid].rows)
        /\ billPreview.grandTotal =
              SumSet([sid \in DOMAIN billPreview.sellers |->
                         billPreview.sellers[sid].sellerTotal],
                     DOMAIN billPreview.sellers)

\* a bill in which one item has lines from two purchases
C1_Witness ==
    /\ BillShown
    /\ \E sid \in DOMAIN billPreview.sellers :
          \E iid \in DOMAIN billPreview.sellers[sid].rows :
             /\ Len(billPreview.sellers[sid].rows[iid].lines) = 2
             /\ Cardinality(DOMAIN billPreview.sellers[sid].rows) = 2

\* C2: once markAsBilled has succeeded for the identifiers of a bill, each of
\* those purchases is billed in the store, and no bill generated afterwards,
\* for any range, includes one of them
C2_BilledStaysOut ==
    /\ (last.op = "markAsBilled" /\ last.res = "ok") =>
          \A id \in Range(lastGeneratedBillIds) :
             id \in DOMAIN purchases /\ purchases[id].billed
    /\ \A id \in committed :
          /\ id \in DOMAIN purchases => purchases[id].billed
          /\ BillShown => id \notin Range(lastGeneratedBillIds)

\* a bill generated after a commit, while a committed purchase is in the store
C2_Witness ==
    /\ BillShown
    /\ \E id \in committed : id \in DOMAIN purchases
                             /\ InRange(purchases[id], billPreview.from, billPreview.to)

\* C3: the commit target a generated bill records is exactly the set of the
\* purchases read that are unbilled and dated within the range
C3_CommitTarget ==
    BillShown =>
        /\ Range(lastGeneratedBillIds) = Billable(billPreview.from, billPreview.to)
        /\ Cardinality(Range(lastGeneratedBillIds)) = Len(lastGeneratedBillIds)

\* a bill whose range ends on the date of a purchase it includes and that
\* leaves out a purchase of the store
C3_Witness ==
    /\ BillShown
    /\ \E id \in Range(lastGeneratedBillIds) : purchases[id].date = billPreview.to
    /\ \E id \in DOMAIN purchases : id \notin Range(lastGeneratedBillIds)

\* C4: after deleteSeller(id) has succeeded with no store error, the store
\* holds neither the seller nor a purchase of that seller
C4_Cascade ==
    (last.op = "deleteSeller" /\ last.res = "ok") =>
        /\ last.a \notin DOMAIN sellers
        /\ \A id \in DOMAIN purchases : purchases[id].sellerId # last.a

\* a seller deleted with two purchases
C4_Witness ==
    /\ last.op = "deleteSeller" /\ last.res = "ok"
    /\ last.n = 2

-----------------------------------------------------------------------------
(* Properties of the cart and of savePurchase, under Spec                   *)

\* C5: in every reachable state every line of every purchase of the store has
\* a quantity that is a number greater than zero
C5_QtyPositive ==
    \A id \in DOMAIN purchases :
       \A i \in 1..Len(purchases[id].items) :
          /\ purchases[id].items[i].qty # NaN
          /\ purchases[id].items[i].qty \in Nat \ {0}

\* a purchase saved from a cart that held an entry with no positive quantity
C5_Witness ==
    /\ last.op = "savePurchase" /\ last.res = "saved"
    /\ last.n > 0
    /\ purchases # NoDocs

\* the cart after changeQty(i, d) as the documentation states it, for a cart
\* whose entry for i is absent or a number
ChangeQtyPost(cart, i, d) ==
    LET current == IF i \in DOMAIN cart THEN cart[i] ELSE 0
    IN  [k \in DOMAIN cart \cup {i} |-> IF k = i THEN Max(0, current + d) ELSE cart[k]]

\* C6: changeQty(itemId, delta) sets the quantity of itemId to
\* max(0, current + delta), current being 0 when itemId has no entry, and
\* leaves every other quantity of the cart as it was
C6_ChangeQty ==
    [][last'.op = "changeQty" =>
          \A i \in 1..(nextItemId - 1), d \in Deltas, ok \in BOOLEAN :
             (changeQty(i, d, ok) /\ (i \in DOMAIN pendingCart => pendingCart[i] # NaN))
                => pendingCart' = ChangeQtyPost(pendingCart, i, d)]_vars

\* changeQty has floored one entry at zero beside an entry it left at one
C6_Witness ==
    /\ last.op = "changeQty" /\ last.done
    /\ \E i, j \in DOMAIN pendingCart : pendingCart[i] = 0 /\ pendingCart[j] = 1

\* C7: setQty(itemId, value) stores a non-negative integer for every input
\* value; a value that is not a valid integer is stored as 0
C7_SetQtyNat ==
    last.op = "setQty" => \A k \in DOMAIN pendingCart : pendingCart[k] \in Nat

\* C8: a call selectSeller(id) without the keep flag that has finished has
\* left the cart empty
C8_SelectResets ==
    (last.op = "selectSeller" /\ last.done) => pendingCart = EmptyCart

-----------------------------------------------------------------------------
(* Properties of the seller form, under SellerSpec                          *)

\* C9: an item that is in a seller before an edit and is kept in the edit
\* form has the same itemId after handleSellerSubmit has saved the edit
C9_ItemIdStable ==
    (last.op = "handleSellerSubmit" /\ last.res = "updated") =>
        \A i \in 1..Len(form.rows) :
           (form.rows[i].existing # 0 /\ Trim(form.rows[i].name) # "") =>
              \E k \in 1..Len(sellers[last.a].items) :
                 sellers[last.a].items[k].itemId = form.rows[i].existing

-----------------------------------------------------------------------------
(* Properties of the week functions, under WeekSpec                         *)

\* the day of the week of a calendar date, 0 is Sunday
DayOfWeek(d) == (DaysFromCivil(d[1], d[2], d[3]) + 4) % 7

DayNumber(d) == DaysFromCivil(d[1], d[2], d[3])

\* C10: for every calendar date d, weekStart(d) is a Monday at most 6 days
\* before d, equal to d when d is a Monday, and weekEnd(d) is 6 days after
\* weekStart(d); weekStart("2024-01-10") is "2024-01-08" and
\* weekEnd("2024-01-10") is "2024-01-14"
C10_WeekBounds ==
    week.d # <<>> =>
        /\ DayOfWeek(week.ws) = 1
        /\ DayNumber(week.d) - DayNumber(week.ws) \in 0..6
        /\ DayOfWeek(week.d) = 1 => week.ws = week.d
        /\ DayNumber(week.we) = DayNumber(week.ws) + 6
        /\ week.d = <<2024, 1, 10>> => week.ws = <<2024, 1, 8>> /\ week.we = <<2024, 1, 14>>

-----------------------------------------------------------------------------
(* Validation and the not-found branch, under Spec                          *)

\* the store operations a handler has issued when it returns with a
\* validation outcome: savePurchase reads the sellers (line 660) before it
\* looks at the cart (line 679); handleSellerSubmit returns at lines 356 and
\* 404-409 before its first store call (line 427)
StoreCallsAtRejection(op, res) ==
    IF op = "savePurchase" /\ res = "empty" THEN 1 ELSE 0

ValidationOutcomes == {"noName", "noItems", "empty"}

\* C11: a validation failure (empty seller name or no named item in
\* handleSellerSubmit, no positive quantity in savePurchase) is rejected before
\* any store operation is issued, and sellers and purchases are unchanged
C11_RejectBeforeStore ==
    [][(last'.op \in {"handleSellerSubmit", "savePurchase"}
           /\ last'.res \in ValidationOutcomes) =>
          /\ StoreCallsAtRejection(last'.op, last'.res) = 0
          /\ sellers' = sellers
          /\ purchases' = purchases]_vars

\* The event loop resumes the not-found branch of selectSeller, and the
\* store answers a read in the end
LiveSpec == Spec /\ WF_vars(RenderPurchaseTabRetry(TRUE) /\ UNCHANGED asyncVars)

\* C12: selectSeller for a seller that is not in the store shows the message,
\* renders the seller list once and terminates: no chain of selectSeller and
\* renderPurchaseTab calls goes on while the seller stays missing
C12_NotFoundTerminates ==
    (~Idle) ~> Idle

-----------------------------------------------------------------------------
(* Partial failure of the billed commit, under BillSpec                     *)

\* C13: if the k-th update of the markAsBilled loop fails, the first k-1
\* purchases of the commit list are billed and stay so, the k-th and the later
\* ones are left as they were (a purchase not billed stays not billed), no
\* purchase is added or removed, and the error is reported
C13_PartialCommit ==
    [][last'.op = "markAsBilled" =>
          \A f \in 1..(MaxPurchases + 1) :
             LET ids == lastGeneratedBillIds
                 k   == FirstFailure(ids, f)
             IN  (markAsBilled(TRUE, f) /\ ids # <<>> /\ k <= Len(ids)) =>
                    /\ last'.res = "error"
                    /\ last'.n = k - 1
                    /\ DOMAIN purchases' = DOMAIN purchases
                    /\ \A i \in 1..(k - 1) : purchases'[ids[i]].billed
                    /\ \A i \in k..Len(ids) :
                          ids[i] \in DOMAIN purchases =>
                             purchases'[ids[i]] = purchases[ids[i]]
                    /\ \A id \in DOMAIN purchases :
                          (\A i \in 1..Len(ids) : ids[i] # id) =>
                             purchases'[id] = purchases[id]]_vars

\* the second update of a commit has failed: the first purchase is billed
\* and the second is not
C13_Witness ==
    /\ last.op = "markAsBilled" /\ last.res = "error" /\ last.n = 1
    /\ Len(lastGeneratedBillIds) = 2
    /\ purchases[lastGeneratedBillIds[1]].billed
    /\ lastGeneratedBillIds[2] \in DOMAIN purchases
    /\ ~purchases[lastGeneratedBillIds[2]].billed

-----------------------------------------------------------------------------
(* The create fallback of an edit, under SellerSpec                         *)

\* C14: in edit mode handleSellerSubmit creates a new seller only when the
\* edited seller's document is missing from the store; when the document
\* exists it is updated in place and the number of sellers is unchanged
C14_CreateOnlyIfMissing ==
    [][(last'.op = "handleSellerSubmit" /\ last'.res \in {"updated", "createdNotFound"}) =>
          IF form.editId \in DOMAIN sellers
          THEN /\ last'.res = "updated"
               /\ DOMAIN sellers' = DOMAIN sellers
          ELSE last'.res = "createdNotFound"]_vars

-----------------------------------------------------------------------------
(* Store failures and what the user is told, under BillSpec                 *)

\* C15: every failure of a store operation ends in a notification of the
\* error; none is turned into a normal-looking result.  Stated for the list
\* operations of deleteSeller and generateBill: when the read fails, the
\* handler ends in its error alert
C15_FailuresNotified ==
    [][/\ last'.op = "deleteSeller" =>
             \A id \in SellerIds, f \in 1..(MaxPurchases + 2) :
                deleteSeller(id, TRUE, FALSE, f) => last'.res = "error"
       /\ last'.op = "generateBill" =>
             \A period \in {"week", "month"}, off \in TzOffsets :
                generateBill(period, <<>>, <<>>, off, FALSE) => last'.res = "error"]_vars

-----------------------------------------------------------------------------
(* A failed create in savePurchase, under Spec                              *)

\* C16: if the store create fails during savePurchase, no purchase is added,
\* the cart keeps all its quantities and the selected seller is unchanged;
\* the handler ends in its error alert
C16_FailedSaveFrame ==
    [][last'.op = "savePurchase" =>
          /\ last'.res = "error" =>
                /\ purchases' = purchases
                /\ pendingCart' = pendingCart
                /\ selectedSellerId' = selectedSellerId
          /\ \A ok3 \in BOOLEAN :
                (/\ savePurchase(<<>>, TRUE, FALSE, ok3)
                 /\ selectedSellerId \in DOMAIN sellers
                 /\ PurchaseLines(pendingCart, sellers[selectedSellerId].items) # <<>>)
                   => last'.res = "error"]_vars

\* a create has failed on a cart that holds a positive quantity
C16_Witness ==
    /\ last.op = "savePurchase" /\ last.res = "error"
    /\ \E k \in DOMAIN pendingCart : JsGt0(pendingCart[k])
    /\ purchases = NoDocs

-----------------------------------------------------------------------------
(* Repeated commits, under BillSpec                                         *)

\* C19: markAsBilled never updates a purchase whose billed flag is already
\* true, so billedAt is written at most once for a purchase, also when
\* markAsBilled runs again with no generateBill in between
C19_BilledOnce ==
    [][(last'.op = "markAsBilled" /\ last'.res \in {"ok", "error"}) =>
          \A i \in 1..last'.n : ~purchases[lastGeneratedBillIds[i]].billed]_vars

-----------------------------------------------------------------------------
(* Overlapping generateBill calls, under AsyncBillSpec                      *)

\* C17: under every interleaving of generateBill calls at their await with
\* markAsBilled and deleteSeller, lastGeneratedBillIds is the identifier list
\* of the purchases aggregated in the bill preview rendered last, and the
\* total of that preview is the total of these purchases; a call that finds
\* no purchase changes neither
C17_TargetMatchesPreview ==
    /\ lastGeneratedBillIds = shownIds
    /\ lastGeneratedBillIds = <<>> => billPreview = NoBill
    /\ (\A i \in 1..Len(lastGeneratedBillIds) : lastGeneratedBillIds[i] \in DOMAIN purchases) =>
          billPreview.grandTotal =
             SumSet([id \in DOMAIN purchases |-> PurchaseTotal(purchases[id])],
                    Range(lastGeneratedBillIds))

\* a call has found no purchase while a bill is shown and another call is
\* still waiting for the store
C17_Witness ==
    /\ last.op = "generateBill" /\ last.res = "none"
    /\ lastGeneratedBillIds # <<>>
    /\ \E r \in 1..MaxBillRuns :
          /\ billRuns[r].phase = "read"
          /\ IdsOf(BillFilter(billRuns[r].all, billRuns[r].from, billRuns[r].to))
                # lastGeneratedBillIds

-----------------------------------------------------------------------------
(* Overlapping savePurchase, deleteSeller and cart edits, under AsyncSaveSpec *)

\* no handler is suspended or in its not-found branch
Quiescent == Idle /\ saveRun.phase = "idle" /\ deleteRun.phase = "idle"

\* C18: whenever no handler is in progress, every purchase of the store
\* references a seller that is in the store, whatever the interleaving of
\* savePurchase and deleteSeller at their awaits
C18_NoOrphanPurchase ==
    Quiescent => \A id \in DOMAIN purchases : purchases[id].sellerId \in DOMAIN sellers

\* C20: when a successful savePurchase empties the cart, every positive
\* quantity in the cart at that moment is part of the purchase it has just
\* written
C20_NothingDiscarded ==
    [][(saveRun.phase = "wrote" /\ saveRun'.phase = "idle" /\ saveRun.id \in DOMAIN purchases) =>
          \A k \in DOMAIN pendingCart :
             JsGt0(pendingCart[k]) =>
                \E n \in 1..Len(purchases[saveRun.id].items) :
                   /\ purchases[saveRun.id].items[n].itemId = k
                   /\ purchases[saveRun.id].items[n].qty = pendingCart[k]]_vars

=============================================================================
